---- MODULE Spec2Model ----
(***************************************************************************)
(* The Repair Intel backend (src/server.js): the two HTTP operations       *)
(* POST /api/create-stripe-checkout and POST /api/process-report, the      *)
(* report formatter generateReportText, the fire-and-forget insert into    *)
(* the reports table and the three notification emails.                    *)
(*                                                                         *)
(* A request handler is an async function: it runs atomically from one     *)
(* await to the next, so every action below is one such run, started by    *)
(* the arrival of the request or by the settlement of the promise the      *)
(* handler is waiting on.  Strings are modelled as sequences of            *)
(* one-character strings where their characters matter (formatted          *)
(* numbers) and as tokens elsewhere; the report, a string built by         *)
(* concatenation, is the sequence of the pieces appended to it.            *)
(***************************************************************************)
EXTENDS Naturals, Sequences, FiniteSets, TLC

\* ------------------------------------------------------------------ bounds
\* Concurrent process-report requests.
NumReq == 2
\* create-stripe-checkout requests.
NumCheckout == 1
\* Longest repair_categories list the analyzer returns.
MaxCats == 2
\* Days the clock may advance during a run.
MaxTicks == 1

Req == 1..NumReq
Chk == 1..NumCheckout

\* ------------------------------------------------------- program constants
\* unit_amount: parseInt(process.env.REPORT_PRICE || 4999)
ReportPriceDefault == 4999
\* pdfText.substring(0, 40000)
MaxInputChars == 40000

VARIABLES
    pc,          \* pc[r]: where the process-report handler of request r stands
    body,        \* req.body of request r: the identity fields
    file,        \* req.file of request r
    prompt,      \* inspection text placed in the analyzer prompt
    reply,       \* the analyzer's answer to request r, once it arrived
    analysis,    \* const analysis = JSON.parse(...)
    reportText,  \* const reportText = generateReportText(...)
    reportDate,  \* the clock value generateReportText read
    trace,       \* per request: collaborator calls and stages, in program order
    responses,   \* per request: the HTTP responses written to res
    dbStatus,    \* per request: state of the INSERT issued by db.run
    reports,     \* rows of the reports table
    outbox,      \* per request: messages the transport accepted
    clock,       \* the server's clock: days elapsed since the server started
    ckPc,        \* pc of each create-stripe-checkout request
    ckResponses, \* per checkout request: the HTTP responses written
    sessions,    \* checkout sessions the payment provider created
    paid,        \* sessions whose payment was completed
    stripeCalls, \* number of stripe.checkout.sessions.create calls
    stripeAnswer \* per checkout request: what the provider answered

vars == <<pc, body, file, prompt, reply, analysis, reportText, reportDate, trace,
          responses, dbStatus, reports, outbox, clock, ckPc, ckResponses,
          sessions, paid, stripeCalls, stripeAnswer>>

\* ------------------------------------------------------------ input domains
\* Values of the multipart text fields firstName, lastName, email, phone,
\* propertyAddress.
Identities ==
    { [firstName |-> "Jane", lastName |-> "Doe", email |-> "jane@example.com",
       phone |-> "555-0100", propertyAddress |-> "123 Main St"],
      [firstName |-> "John", lastName |-> "Roe", email |-> "john@example.com",
       phone |-> "555-0199", propertyAddress |-> "9 Elm Rd"] }

NoBody == [firstName |-> "", lastName |-> "", email |-> "", phone |-> "",
           propertyAddress |-> ""]

\* The multipart field pdf: absent, a file pdf-parse rejects, or a document
\* whose text has the given length.
Files == {"none", "corrupt", "short", "exact", "long"}

Min(a, b) == IF a <= b THEN a ELSE b

\* A text is known by the document it comes from and by its length: every
\* text taken from one document is a prefix of that document's text.
NoText == [doc |-> "none", len |-> 0]

\* pdfParse(pdfBuffer).text
PdfText(f) ==
    [doc |-> f,
     len |-> CASE f = "short" -> 120
               [] f = "exact" -> MaxInputChars
               [] f = "long"  -> MaxInputChars + 1
               [] OTHER       -> 0]

\* A prompt that takes the whole text.
Substring_Whole(text, n) == text

\* String.prototype.substring(0, n)
Substring(text, n) == [doc |-> text.doc, len |-> Min(text.len, n)]

\* RepairCategory records the analyzer may return.
RoofRepair ==
    [category_name |-> "Roof Repair",
     inspection_items |-> <<[section_number |-> "3.2",
                             description |-> "Missing shingles"]>>,
     handyman_cost |-> 500, contractor_cost |-> 1200,
     recommended_trade |-> "Roofer"]

Plumbing ==
    [category_name |-> "Plumbing",
     inspection_items |-> <<[section_number |-> "5.1",
                             description |-> "Leaking trap"],
                            [section_number |-> "5.4",
                             description |-> "Corroded supply line"]>>,
     handyman_cost |-> 999, contractor_cost |-> 1000,
     recommended_trade |-> "Plumber"]

CategoryPool == {RoofRepair, Plumbing}

CategoryLists == UNION { [1..n -> CategoryPool] : n \in 0..MaxCats }

\* The object the analyzer's JSON denotes.  has_categories is FALSE when the
\* repair_categories key is missing.
EstimateObjects ==
    { [has_categories |-> TRUE, repair_categories |-> cats,
       termites_mentioned |-> t, pests_mentioned |-> p, rot_mentioned |-> o] :
         cats \in CategoryLists, t \in BOOLEAN, p \in BOOLEAN, o \in BOOLEAN }

NoCategoriesObject ==
    [has_categories |-> FALSE, repair_categories |-> <<>>,
     termites_mentioned |-> FALSE, pests_mentioned |-> TRUE, rot_mentioned |-> FALSE]

NoAnalysis ==
    [has_categories |-> FALSE, repair_categories |-> <<>>,
     termites_mentioned |-> FALSE, pests_mentioned |-> FALSE, rot_mentioned |-> FALSE]

\* message.content[0].text: either the JSON text of an object or prose that
\* is not JSON.
JsonText(obj) == [kind |-> "json", value |-> obj]
ProseText == [kind |-> "prose", value |-> NoAnalysis]
NoReply == [kind |-> "none", value |-> NoAnalysis]

AnalyzerTexts ==
    { JsonText(o) : o \in EstimateObjects \cup {NoCategoriesObject} } \cup {ProseText}

\* JSON.stringify(analysis)
JsonStringify(obj) == JsonText(obj)

\* A parser that repairs text that is not JSON into an empty estimate.
JsonParse_Lenient(text) ==
    [ok |-> TRUE,
     value |-> IF text.kind = "json" THEN text.value
               ELSE [NoAnalysis EXCEPT !.has_categories = TRUE]]

\* JSON.parse(text): throws a SyntaxError on text that is not JSON.
JsonParse(text) ==
    IF text.kind = "json" THEN [ok |-> TRUE, value |-> text.value]
                          ELSE [ok |-> FALSE, value |-> NoAnalysis]

\* ------------------------------------------------------- generateReportText
DigitChar(d) == <<"0", "1", "2", "3", "4", "5", "6", "7", "8", "9">>[d + 1]

RECURSIVE Digits(_)
Digits(n) == IF n < 10 THEN <<DigitChar(n)>>
             ELSE Digits(n \div 10) \o <<DigitChar(n % 10)>>

RECURSIVE Grouped(_)
Grouped(ds) ==
    IF Len(ds) <= 3 THEN ds
    ELSE Grouped(SubSeq(ds, 1, Len(ds) - 3)) \o <<",">>
         \o SubSeq(ds, Len(ds) - 2, Len(ds))

\* Number.prototype.toLocaleString() of a non-negative integer: decimal
\* digits in groups of three.
ToLocaleString(n) == Grouped(Digits(n))

\* One piece appended to the report.
Piece(kind, text) == [kind |-> kind, text |-> text]

\* A reduce that adds cat.handyman_cost for both totals.
RECURSIVE SumCosts_OneField(_, _)
SumCosts_OneField(cats, field) ==
    IF cats = <<>> THEN 0
    ELSE SumCosts_OneField(SubSeq(cats, 1, Len(cats) - 1), field)
         + cats[Len(cats)].handyman_cost

\* Array.prototype.reduce((sum, cat) => sum + cost, 0)
RECURSIVE SumCosts(_, _)
SumCosts(cats, field) ==
    IF cats = <<>> THEN 0
    ELSE SumCosts(SubSeq(cats, 1, Len(cats) - 1), field) + cats[Len(cats)][field]

\* cat.inspection_items.forEach(...)
ItemPieces(items) ==
    [i \in 1..Len(items) |->
        Piece("item", <<"Section ", items[i].section_number, " - ",
                        items[i].description>>)]

\* A separator after every category, the last included.
NeedsSeparator_Always(idx, n) == idx < n

\* if (idx < analysis.repair_categories.length - 1), idx counted from 0
NeedsSeparator(idx, n) == idx + 1 < n

\* The body of analysis.repair_categories.forEach((cat, idx) => ...)
CategoryBlock(cat, idx, n) ==
    <<Piece("category_name", <<cat.category_name>>),
      Piece("range_label", <<"Estimated Range: Handyman to Contractor">>),
      Piece("handyman_cost", <<"$">> \o ToLocaleString(cat.handyman_cost)),
      Piece("contractor_cost", <<"$">> \o ToLocaleString(cat.contractor_cost)),
      Piece("items_label", <<"Referenced inspection items:">>)>>
    \o ItemPieces(cat.inspection_items)
    \o <<Piece("recommended_trade", <<cat.recommended_trade>>)>>
    \o (IF NeedsSeparator(idx, n) THEN <<Piece("separator", <<>>)>> ELSE <<>>)

RECURSIVE CategoryBlocks(_, _)
CategoryBlocks(cats, k) ==
    IF k = 0 THEN <<>>
    ELSE CategoryBlocks(cats, k - 1) \o CategoryBlock(cats[k], k - 1, Len(cats))

\* new Date().toLocaleDateString() and new Date().getFullYear()
ToLocaleDateString(now) == Digits(now.day) \o <<"/">> \o Digits(now.year)
GetFullYear(now) == Digits(now.year)

\* The template literal the report starts with.
ReportHeader(firstName, lastName, propertyAddress, now) ==
    <<Piece("title", <<"THE REPAIR INTEL">>),
      Piece("prepared_for", <<firstName, " ", lastName>>),
      Piece("property_address", <<propertyAddress>>),
      Piece("date_prepared", ToLocaleDateString(now)),
      Piece("prepared_by", <<"Anarumo Inspection Services">>),
      Piece("summary", <<"EXECUTIVE SUMMARY">>)>>

\* The template literal appended after the categories.
ReportFooter(an, now) ==
    <<Piece("totals_label", <<"TOTAL ESTIMATED REPAIR RANGE">>),
      Piece("handyman_total",
            <<"$">> \o ToLocaleString(SumCosts(an.repair_categories, "handyman_cost"))),
      Piece("contractor_total",
            <<"$">> \o ToLocaleString(SumCosts(an.repair_categories, "contractor_cost"))),
      Piece("note", <<"Note: These estimates are for negotiation context only.">>),
      Piece("copyright", GetFullYear(now))>>

\* A formatter that numbers its reports with a counter kept between calls.
GenerateReportText_Numbered(firstName, lastName, propertyAddress, an, now) ==
    ReportHeader(firstName, lastName, propertyAddress, now)
    \o <<Piece("report_number",
               Digits(Cardinality({r \in Req : reportText[r] # <<>>}) + 1))>>
    \o CategoryBlocks(an.repair_categories, Len(an.repair_categories))
    \o ReportFooter(an, now)

\* generateReportText(firstName, lastName, propertyAddress, analysis); now is
\* what new Date() returns during the call.
GenerateReportText(firstName, lastName, propertyAddress, an, now) ==
    ReportHeader(firstName, lastName, propertyAddress, now)
    \o CategoryBlocks(an.repair_categories, Len(an.repair_categories))
    \o ReportFooter(an, now)

\* new Date(): the server starts on the last day of a year.
Now(c) == [year |-> 2026 + (364 + c) \div 365, day |-> ((364 + c) % 365) + 1]

\* ------------------------------------------------------------------ emails
Mail(template, to, b, attachment) ==
    [template |-> template, to |-> to, firstName |-> b.firstName,
     lastName |-> b.lastName, email |-> b.email, phone |-> b.phone,
     address |-> b.propertyAddress, attachment |-> attachment]

\* A client message that links to the report instead of attaching it.
ClientMail_NoAttachment(b, report) ==
    Mail("client", b.email, [b EXCEPT !.lastName = "", !.phone = "", !.email = ""], <<>>)

\* A handler whose report text is a variable shared by all requests: the
\* attachment is the report formatted last.
ClientMail_Shared(b, report) ==
    Mail("client", b.email, [b EXCEPT !.lastName = "", !.phone = "", !.email = ""],
         reportText[CHOOSE r \in Req :
                       /\ reportText[r] # <<>>
                       /\ \A q \in Req : reportText[q] # <<>> => q <= r])

\* sendClientEmail(email, firstName, propertyAddress, reportText)
ClientMail(b, report) ==
    Mail("client", b.email, [b EXCEPT !.lastName = "", !.phone = "", !.email = ""],
         report)

\* sendAdminEmail(firstName, lastName, email, phone, propertyAddress, analysis)
AdminMail(b) == Mail("admin", "FROM_EMAIL", b, <<>>)

\* sendGreenMantisEmail(firstName, lastName, email, phone, propertyAddress, analysis)
LeadMail(b) == Mail("lead", "ADMIN_EMAIL", b, <<>>)

\* A condition that asks for both flags.
LeadWanted_Both(an) == an.termites_mentioned /\ an.pests_mentioned

\* if (analysis.termites_mentioned || analysis.pests_mentioned)
LeadWanted(an) == an.termites_mentioned \/ an.pests_mentioned

\* ---------------------------------------------------------------- responses
\* res.json({ success: true, report: reportText })
SuccessResponse(report) ==
    [status |-> 200, success |-> TRUE, report |-> report, error |-> ""]

\* A catch block that answers 400.
ErrorResponse_BadRequest(message) ==
    [status |-> 400, success |-> FALSE, report |-> <<>>, error |-> message]

\* res.status(500).json({ error: error.message })
ErrorResponse(message) ==
    [status |-> 500, success |-> FALSE, report |-> <<>>, error |-> message]

\* The session stripe.checkout.sessions.create makes: one unit at the price.
StripeSession(id) == [id |-> id, unit_amount |-> ReportPriceDefault, quantity |-> 1]

\* The messages of the errors the payment provider throws.
StripeErrors == {"Invalid API Key provided", "Rate limit exceeded"}
NoStripeAnswer == [kind |-> "none", id |-> 0, message |-> ""]

\* res.json({ sessionId: session.id })
CheckoutResponse(id) == [status |-> 200, sessionId |-> id, error |-> ""]

\* res.status(500).json({ error: error.message })
CheckoutError(message) == [status |-> 500, sessionId |-> 0, error |-> message]

\* The parameters of the INSERT: payment_id and payment_amount are not among
\* the columns it names.
InsertParams(b, an) ==
    [first_name |-> b.firstName, last_name |-> b.lastName, email |-> b.email,
     phone |-> b.phone, property_address |-> b.propertyAddress,
     payment_id |-> "NULL", payment_amount |-> "NULL",
     report_data |-> JsonStringify(an),
     termites_mentioned |-> an.termites_mentioned,
     pests_mentioned |-> an.pests_mentioned,
     rot_mentioned |-> an.rot_mentioned]

Append2(f, r, events) == [f EXCEPT ![r] = @ \o events]

\* ----------------------------------------------------------------- initial
Init ==
    /\ pc = [r \in Req |-> "idle"]
    /\ body = [r \in Req |-> NoBody]
    /\ file = [r \in Req |-> "none"]
    /\ prompt = [r \in Req |-> NoText]
    /\ reply = [r \in Req |-> NoReply]
    /\ analysis = [r \in Req |-> NoAnalysis]
    /\ reportText = [r \in Req |-> <<>>]
    /\ reportDate = [r \in Req |-> 0]
    /\ trace = [r \in Req |-> <<>>]
    /\ responses = [r \in Req |-> <<>>]
    /\ dbStatus = [r \in Req |-> "none"]
    /\ reports = <<>>
    /\ outbox = [r \in Req |-> <<>>]
    /\ clock = 0
    /\ ckPc = [c \in Chk |-> "idle"]
    /\ ckResponses = [c \in Chk |-> <<>>]
    /\ sessions = {}
    /\ paid = {}
    /\ stripeCalls = [c \in Chk |-> 0]
    /\ stripeAnswer = [c \in Chk |-> NoStripeAnswer]

checkoutVars == <<ckPc, ckResponses, sessions, paid, stripeCalls, stripeAnswer>>


reportVars == <<pc, body, file, prompt, reply, analysis, reportText, reportDate,
                trace, responses, dbStatus, reports, outbox>>

\* ------------------------------------------------ POST /api/process-report
\* catch (error) { res.status(500).json({ error: error.message }) }: the
\* handler ends after logging events.
Catch(r, events, message) ==
    /\ pc' = [pc EXCEPT ![r] = "done"]
    /\ trace' = Append2(trace, r, events \o <<"Failed">>)
    /\ responses' = Append2(responses, r, <<ErrorResponse(message)>>)

\* The request arrives; the handler reads req.body and req.file.buffer and
\* calls pdfParse.  Without a file, req.file is undefined and the read throws.
Arrive(r, files) ==
    /\ pc[r] = "idle"
    /\ \E b \in Identities, f \in files :
         /\ body' = [body EXCEPT ![r] = b]
         /\ file' = [file EXCEPT ![r] = f]
         /\ IF f = "none"
              THEN Catch(r, <<"Received">>, "TypeError")
              ELSE /\ pc' = [pc EXCEPT ![r] = "extracting"]
                   /\ trace' = Append2(trace, r, <<"Received", "pdfParse">>)
                   /\ UNCHANGED responses
    /\ UNCHANGED <<prompt, reply, analysis, reportText, reportDate, dbStatus,
                   reports, outbox, clock>>
    /\ UNCHANGED checkoutVars

\* pdfParse settles.  On text, the handler builds the prompt from the first
\* MaxInputChars characters and calls anthropic.messages.create.
ExtractSettled(r) ==
    /\ pc[r] = "extracting"
    /\ \/ /\ file[r] = "corrupt"
          /\ Catch(r, <<>>, "pdf-parse error")
          /\ UNCHANGED prompt
       \/ /\ file[r] # "corrupt"
          /\ prompt' = [prompt EXCEPT ![r] = Substring(PdfText(file[r]), MaxInputChars)]
          /\ pc' = [pc EXCEPT ![r] = "analyzing"]
          /\ trace' = Append2(trace, r, <<"Extracted", "messages.create">>)
          /\ UNCHANGED responses
    /\ UNCHANGED <<body, file, reply, analysis, reportText, reportDate, dbStatus,
                   reports, outbox, clock>>
    /\ UNCHANGED checkoutVars

\* A formatter that reads (analysis.repair_categories || []).
FormatThrows_Tolerant(an) == FALSE

\* analysis.repair_categories.forEach(...) throws a TypeError when the
\* answer has no repair_categories.
FormatThrows(an) == ~an.has_categories

\* A handler that awaits the insert before it notifies.
StoreAndNotify_Awaited(r) ==
    /\ dbStatus' = [dbStatus EXCEPT ![r] = "pending"]
    /\ pc' = [pc EXCEPT ![r] = "storing"]
    /\ trace' = Append2(trace, r, <<"Analyzed", "Formatted", "db.run">>)
    /\ UNCHANGED responses

\* db.run(INSERT ...) without a callback, then await sendClientEmail(...):
\* the insert is handed to the database and the handler goes on at once.
StoreAndNotify(r) ==
    /\ dbStatus' = [dbStatus EXCEPT ![r] = "pending"]
    /\ pc' = [pc EXCEPT ![r] = "sendingClient"]
    /\ trace' = Append2(trace, r, <<"Analyzed", "Formatted", "db.run", "Stored",
                                    "sendClientEmail">>)
    /\ UNCHANGED responses

\* anthropic.messages.create settles.  On an answer the handler parses it,
\* formats the report, issues the insert and calls sendClientEmail.
AnalyzeSettled(r, texts) ==
    /\ pc[r] = "analyzing"
    /\ \/ /\ Catch(r, <<>>, "API error")
          /\ UNCHANGED <<reply, analysis, reportText, reportDate, dbStatus>>
       \/ \E text \in texts :
            /\ reply' = [reply EXCEPT ![r] = text]
            /\ IF ~JsonParse(text).ok
                 THEN /\ Catch(r, <<>>, "SyntaxError")
                      /\ UNCHANGED <<analysis, reportText, reportDate, dbStatus>>
                 ELSE /\ analysis' = [analysis EXCEPT ![r] = JsonParse(text).value]
                      /\ IF FormatThrows(JsonParse(text).value)
                           THEN /\ Catch(r, <<"Analyzed">>, "TypeError")
                                /\ UNCHANGED <<reportText, reportDate, dbStatus>>
                           ELSE /\ reportText' =
                                     [reportText EXCEPT ![r] =
                                        GenerateReportText(body[r].firstName,
                                            body[r].lastName, body[r].propertyAddress,
                                            JsonParse(text).value, Now(clock))]
                                /\ reportDate' = [reportDate EXCEPT ![r] = clock]
                                /\ StoreAndNotify(r)
    /\ UNCHANGED <<body, file, prompt, reports, outbox, clock>>
    /\ UNCHANGED checkoutVars

\* A database whose failed INSERT throws into the handler's catch block.
InsertSettled_Throws(r) ==
    /\ dbStatus[r] = "pending"
    /\ \/ /\ reports' = Append(reports,
                 [id |-> Len(reports) + 1, req |-> r,
                  row |-> InsertParams(body[r], analysis[r])])
          /\ dbStatus' = [dbStatus EXCEPT ![r] = "ok"]
          /\ UNCHANGED <<pc, trace, responses>>
       \/ /\ dbStatus' = [dbStatus EXCEPT ![r] = "failed"]
          /\ Catch(r, <<>>, "SQLITE_ERROR")
          /\ UNCHANGED reports
    /\ UNCHANGED <<body, file, prompt, reply, analysis, reportText, reportDate,
                   outbox, clock>>
    /\ UNCHANGED checkoutVars

\* A database statement INSERT OR REPLACE keyed by the email column: a row
\* with the same email is overwritten.
InsertSettled_Upsert(r) ==
    /\ dbStatus[r] = "pending"
    /\ \/ /\ reports' =
               (IF \E i \in DOMAIN reports : reports[i].row.email = body[r].email
                  THEN [i \in DOMAIN reports |->
                          IF reports[i].row.email = body[r].email
                            THEN [id |-> reports[i].id, req |-> r,
                                  row |-> InsertParams(body[r], analysis[r])]
                            ELSE reports[i]]
                  ELSE Append(reports,
                          [id |-> Len(reports) + 1, req |-> r,
                           row |-> InsertParams(body[r], analysis[r])]))
          /\ dbStatus' = [dbStatus EXCEPT ![r] = "ok"]
       \/ /\ dbStatus' = [dbStatus EXCEPT ![r] = "failed"]
          /\ UNCHANGED reports
    /\ UNCHANGED <<pc, body, file, prompt, reply, analysis, reportText, reportDate,
                   trace, responses, outbox, clock>>
    /\ UNCHANGED checkoutVars

\* The database runs the pending INSERT of request r: the row is added with
\* the next id, or the statement fails; nobody listens to the outcome.
InsertSettled(r) ==
    /\ dbStatus[r] = "pending"
    /\ \/ /\ reports' = Append(reports,
                 [id |-> Len(reports) + 1, req |-> r,
                  row |-> InsertParams(body[r], analysis[r])])
          /\ dbStatus' = [dbStatus EXCEPT ![r] = "ok"]
       \/ /\ dbStatus' = [dbStatus EXCEPT ![r] = "failed"]
          /\ UNCHANGED reports
    /\ UNCHANGED <<pc, body, file, prompt, reply, analysis, reportText, reportDate,
                   trace, responses, outbox, clock>>
    /\ UNCHANGED checkoutVars

\* res.json({ success: true, report: reportText })
Complete(r, events) ==
    /\ pc' = [pc EXCEPT ![r] = "done"]
    /\ trace' = Append2(trace, r, events \o <<"Notified", "Complete">>)
    /\ responses' = Append2(responses, r, <<SuccessResponse(reportText[r])>>)

\* A handler that catches a failed client send and goes on to the admin
\* message.
ClientMailSettled_Isolated(r) ==
    /\ pc[r] = "sendingClient"
    /\ \/ /\ UNCHANGED outbox
          /\ trace' = Append2(trace, r, <<"sendAdminEmail">>)
       \/ /\ outbox' = Append2(outbox, r, <<ClientMail(body[r], reportText[r])>>)
          /\ trace' = Append2(trace, r, <<"ClientSent", "sendAdminEmail">>)
    /\ pc' = [pc EXCEPT ![r] = "sendingAdmin"]
    /\ UNCHANGED <<body, file, prompt, reply, analysis, reportText, reportDate,
                   dbStatus, reports, responses, clock>>
    /\ UNCHANGED checkoutVars

\* A handler that sends the lead message before the admin message.
ClientMailSettled_LeadFirst(r) ==
    /\ pc[r] = "sendingClient"
    /\ \/ /\ Catch(r, <<>>, "SMTP error")
          /\ UNCHANGED outbox
       \/ /\ outbox' = Append2(outbox, r, <<ClientMail(body[r], reportText[r])>>)
          /\ pc' = [pc EXCEPT ![r] = "sendingLead"]
          /\ trace' = Append2(trace, r, <<"ClientSent", "sendGreenMantisEmail">>)
          /\ UNCHANGED responses
    /\ UNCHANGED <<body, file, prompt, reply, analysis, reportText, reportDate,
                   dbStatus, reports, clock>>
    /\ UNCHANGED checkoutVars

\* transporter.sendMail of the client message settles; then sendAdminEmail.
ClientMailSettled(r) ==
    /\ pc[r] = "sendingClient"
    /\ \/ /\ Catch(r, <<>>, "SMTP error")
          /\ UNCHANGED outbox
       \/ /\ outbox' = Append2(outbox, r, <<ClientMail(body[r], reportText[r])>>)
          /\ pc' = [pc EXCEPT ![r] = "sendingAdmin"]
          /\ trace' = Append2(trace, r, <<"ClientSent", "sendAdminEmail">>)
          /\ UNCHANGED responses
    /\ UNCHANGED <<body, file, prompt, reply, analysis, reportText, reportDate,
                   dbStatus, reports, clock>>
    /\ UNCHANGED checkoutVars

\* The admin message settles; then the lead message if the estimate asks
\* for it, else the success response.
AdminMailSettled(r) ==
    /\ pc[r] = "sendingAdmin"
    /\ \/ /\ Catch(r, <<>>, "SMTP error")
          /\ UNCHANGED outbox
       \/ /\ outbox' = Append2(outbox, r, <<AdminMail(body[r])>>)
          /\ IF LeadWanted(analysis[r])
               THEN /\ pc' = [pc EXCEPT ![r] = "sendingLead"]
                    /\ trace' = Append2(trace, r, <<"AdminSent", "sendGreenMantisEmail">>)
                    /\ UNCHANGED responses
               ELSE Complete(r, <<"AdminSent">>)
    /\ UNCHANGED <<body, file, prompt, reply, analysis, reportText, reportDate,
                   dbStatus, reports, clock>>
    /\ UNCHANGED checkoutVars

\* A handler that catches a failed lead send and answers with success.
LeadMailSettled_Swallow(r) ==
    /\ pc[r] = "sendingLead"
    /\ \/ /\ Complete(r, <<>>)
          /\ UNCHANGED outbox
       \/ /\ outbox' = Append2(outbox, r, <<LeadMail(body[r])>>)
          /\ Complete(r, <<"LeadSent">>)
    /\ UNCHANGED <<body, file, prompt, reply, analysis, reportText, reportDate,
                   dbStatus, reports, clock>>
    /\ UNCHANGED checkoutVars

\* A handler that sends the lead message a second time when the first send
\* fails.
LeadMailSettled_Retry(r) ==
    /\ pc[r] = "sendingLead"
    /\ \/ /\ IF Cardinality({i \in DOMAIN trace[r] :
                                trace[r][i] = "sendGreenMantisEmail"}) < 2
               THEN /\ trace' = Append2(trace, r, <<"sendGreenMantisEmail">>)
                    /\ UNCHANGED <<pc, responses>>
               ELSE Catch(r, <<>>, "SMTP error")
          /\ UNCHANGED outbox
       \/ /\ outbox' = Append2(outbox, r, <<LeadMail(body[r])>>)
          /\ Complete(r, <<"LeadSent">>)
    /\ UNCHANGED <<body, file, prompt, reply, analysis, reportText, reportDate,
                   dbStatus, reports, clock>>
    /\ UNCHANGED checkoutVars

\* The lead message settles; then the success response.
LeadMailSettled(r) ==
    /\ pc[r] = "sendingLead"
    /\ \/ /\ Catch(r, <<>>, "SMTP error")
          /\ UNCHANGED outbox
       \/ /\ outbox' = Append2(outbox, r, <<LeadMail(body[r])>>)
          /\ Complete(r, <<"LeadSent">>)
    /\ UNCHANGED <<body, file, prompt, reply, analysis, reportText, reportDate,
                   dbStatus, reports, clock>>
    /\ UNCHANGED checkoutVars

\* A day passes on the server's clock.
Tick ==
    /\ clock < MaxTicks
    /\ clock' = clock + 1
    /\ UNCHANGED reportVars
    /\ UNCHANGED checkoutVars

\* ----------------------------------------- POST /api/create-stripe-checkout
\* stripe.checkout.sessions.create({... unit_amount, quantity: 1, mode: 'payment'})
CheckoutArrive(c) ==
    /\ ckPc[c] = "idle"
    /\ ckPc' = [ckPc EXCEPT ![c] = "creating"]
    /\ stripeCalls' = [stripeCalls EXCEPT ![c] = @ + 1]
    /\ UNCHANGED <<ckResponses, sessions, paid, stripeAnswer, clock>>
    /\ UNCHANGED reportVars

\* A handler that calls the provider a second time when the first call fails.
CheckoutSettled_Retry(c) ==
    /\ ckPc[c] = "creating"
    /\ \/ /\ sessions' = sessions \cup {StripeSession(Cardinality(sessions) + 1)}
          /\ stripeAnswer' = [stripeAnswer EXCEPT ![c] =
                 [kind |-> "session", id |-> Cardinality(sessions) + 1, message |-> ""]]
          /\ ckResponses' = Append2(ckResponses, c,
                 <<CheckoutResponse(Cardinality(sessions) + 1)>>)
          /\ ckPc' = [ckPc EXCEPT ![c] = "done"]
          /\ UNCHANGED stripeCalls
       \/ \E m \in StripeErrors :
            /\ stripeAnswer' = [stripeAnswer EXCEPT ![c] =
                   [kind |-> "error", id |-> 0, message |-> m]]
            /\ IF stripeCalls[c] < 2
                 THEN /\ stripeCalls' = [stripeCalls EXCEPT ![c] = @ + 1]
                      /\ UNCHANGED <<ckPc, ckResponses>>
                 ELSE /\ ckResponses' = Append2(ckResponses, c, <<CheckoutError(m)>>)
                      /\ ckPc' = [ckPc EXCEPT ![c] = "done"]
                      /\ UNCHANGED stripeCalls
            /\ UNCHANGED sessions
    /\ UNCHANGED <<paid, clock>>
    /\ UNCHANGED reportVars

\* The provider answers with a session or throws an error with a message:
\* res.json({ sessionId: session.id }), or the catch block's
\* res.status(500).json({ error: error.message }).
CheckoutSettled(c) ==
    /\ ckPc[c] = "creating"
    /\ ckPc' = [ckPc EXCEPT ![c] = "done"]
    /\ \/ /\ sessions' = sessions \cup {StripeSession(Cardinality(sessions) + 1)}
          /\ stripeAnswer' = [stripeAnswer EXCEPT ![c] =
                 [kind |-> "session", id |-> Cardinality(sessions) + 1, message |-> ""]]
          /\ ckResponses' = Append2(ckResponses, c,
                 <<CheckoutResponse(Cardinality(sessions) + 1)>>)
       \/ \E m \in StripeErrors :
            /\ stripeAnswer' = [stripeAnswer EXCEPT ![c] =
                   [kind |-> "error", id |-> 0, message |-> m]]
            /\ ckResponses' = Append2(ckResponses, c, <<CheckoutError(m)>>)
            /\ UNCHANGED sessions
    /\ UNCHANGED <<paid, stripeCalls, clock>>
    /\ UNCHANGED reportVars

\* The customer completes the payment of a session on the provider's page.
Pay ==
    /\ \E s \in sessions : s.id \notin paid /\ paid' = paid \cup {s.id}
    /\ UNCHANGED <<ckPc, ckResponses, sessions, stripeCalls, stripeAnswer, clock>>
    /\ UNCHANGED reportVars

\* ------------------------------------------------------------ the server
\* Inputs of the server runs: the uploads and the analyzer's answers.  The
\* answers are prose, an object without repair_categories, an estimate with
\* no category, and a one-category estimate under every combination of the
\* three flags.
ServerFiles == {"none", "corrupt", "short"}

ServerEstimates ==
    { e \in EstimateObjects :
        \/ e.repair_categories = <<RoofRepair>>
        \/ /\ e.repair_categories = <<>>
           /\ ~e.termites_mentioned /\ ~e.pests_mentioned /\ ~e.rot_mentioned }

ServerTexts ==
    { JsonText(o) : o \in ServerEstimates \cup {NoCategoriesObject} } \cup {ProseText}

Next ==
    \/ \E r \in Req : Arrive(r, ServerFiles)
    \/ \E r \in Req : ExtractSettled(r)
    \/ \E r \in Req : AnalyzeSettled(r, ServerTexts)
    \/ \E r \in Req : InsertSettled(r)
    \/ \E r \in Req : ClientMailSettled(r)
    \/ \E r \in Req : AdminMailSettled(r)
    \/ \E r \in Req : LeadMailSettled(r)

Spec == Init /\ [][Next]_vars

\* ------------------------------------------------- the server and its clock
\* Runs in which days pass between and during the requests; the analyzer
\* answers with one of two estimates.
ClockTexts ==
    { JsonText(o) : o \in { e \in EstimateObjects :
          /\ e.repair_categories \in {<<RoofRepair>>, <<Plumbing, RoofRepair>>}
          /\ e.termites_mentioned /\ ~e.pests_mentioned /\ ~e.rot_mentioned } }

NextClock ==
    \/ \E r \in Req : Arrive(r, {"none", "corrupt", "short"})
    \/ \E r \in Req : ExtractSettled(r)
    \/ \E r \in Req : AnalyzeSettled(r, ClockTexts)
    \/ \E r \in Req : InsertSettled(r)
    \/ \E r \in Req : ClientMailSettled(r)
    \/ \E r \in Req : AdminMailSettled(r)
    \/ \E r \in Req : LeadMailSettled(r)
    \/ Tick

SpecClock == Init /\ [][NextClock]_vars

\* ------------------------------------------ the server and the payment flow
PayTexts == {JsonText(o) : o \in { e \in EstimateObjects :
          /\ e.repair_categories = <<RoofRepair>>
          /\ e.termites_mentioned /\ ~e.pests_mentioned /\ ~e.rot_mentioned } }

NextPay ==
    \/ \E c \in Chk : CheckoutArrive(c)
    \/ \E c \in Chk : CheckoutSettled(c)
    \/ Pay
    \/ \E r \in Req : Arrive(r, {"none", "corrupt", "short"})
    \/ \E r \in Req : ExtractSettled(r)
    \/ \E r \in Req : AnalyzeSettled(r, PayTexts)
    \/ \E r \in Req : InsertSettled(r)
    \/ \E r \in Req : ClientMailSettled(r)
    \/ \E r \in Req : AdminMailSettled(r)
    \/ \E r \in Req : LeadMailSettled(r)

SpecPay == Init /\ [][NextPay]_vars

\* ------------------------------------------- the server and long documents
\* Runs on every upload: no file, a rejected file, and documents whose text
\* is shorter than, as long as and longer than MaxInputChars.
NextExtract ==
    \/ \E r \in Req : Arrive(r, Files)
    \/ \E r \in Req : ExtractSettled(r)
    \/ \E r \in Req : AnalyzeSettled(r, PayTexts)
    \/ \E r \in Req : InsertSettled(r)
    \/ \E r \in Req : ClientMailSettled(r)
    \/ \E r \in Req : AdminMailSettled(r)
    \/ \E r \in Req : LeadMailSettled(r)

SpecExtract == Init /\ [][NextExtract]_vars

\* ------------------------------------------------- generateReportText alone
\* Calls of generateReportText on every identity, every estimate and every
\* date: request 1 holds the arguments, FormatCall applies the function.
InitFormat ==
    /\ pc = [r \in Req |-> IF r = 1 THEN "formatting" ELSE "idle"]
    /\ \E b \in Identities : body = [r \in Req |-> IF r = 1 THEN b ELSE NoBody]
    /\ \E e \in EstimateObjects :
         analysis = [r \in Req |-> IF r = 1 THEN e ELSE NoAnalysis]
    /\ clock \in 0..MaxTicks
    /\ file = [r \in Req |-> "none"]
    /\ prompt = [r \in Req |-> NoText]
    /\ reply = [r \in Req |-> NoReply]
    /\ reportText = [r \in Req |-> <<>>]
    /\ reportDate = [r \in Req |-> 0]
    /\ trace = [r \in Req |-> <<>>]
    /\ responses = [r \in Req |-> <<>>]
    /\ dbStatus = [r \in Req |-> "none"]
    /\ reports = <<>>
    /\ outbox = [r \in Req |-> <<>>]
    /\ ckPc = [c \in Chk |-> "idle"]
    /\ ckResponses = [c \in Chk |-> <<>>]
    /\ sessions = {}
    /\ paid = {}
    /\ stripeCalls = [c \in Chk |-> 0]
    /\ stripeAnswer = [c \in Chk |-> NoStripeAnswer]

FormatCall ==
    /\ pc[1] = "formatting"
    /\ reportText' = [reportText EXCEPT ![1] =
           GenerateReportText(body[1].firstName, body[1].lastName,
                              body[1].propertyAddress, analysis[1], Now(clock))]
    /\ reportDate' = [reportDate EXCEPT ![1] = clock]
    /\ pc' = [pc EXCEPT ![1] = "formatted"]
    /\ UNCHANGED <<body, file, prompt, reply, analysis, trace, responses, dbStatus,
                   reports, outbox, clock>>
    /\ UNCHANGED checkoutVars

SpecFormat == InitFormat /\ [][FormatCall]_vars

\* ======================================================== properties
Count(seq, x) == Cardinality({i \in DOMAIN seq : seq[i] = x})
Happened(r, event) == \E i \in DOMAIN trace[r] : trace[r][i] = event
MailCount(r, template) ==
    Cardinality({i \in DOMAIN outbox[r] : outbox[r][i].template = template})
\* The analyzer's answer to request r was parsed into an estimate.
HasEstimate(r) == reply[r].kind = "json"

\* ---------------------------------------------------------------- C1
\* C1, as stated: for every process-report request that ran to its end with
\* an estimate, the lead message was dispatched exactly once if
\* termites_mentioned or pests_mentioned is true, and never if both are false.
C1_Original ==
    \A r \in Req :
        (pc[r] = "done" /\ Happened(r, "Formatted")) =>
            Count(trace[r], "sendGreenMantisEmail") =
                (IF analysis[r].termites_mentioned \/ analysis[r].pests_mentioned
                   THEN 1 ELSE 0)

\* C1, amended: with both flags false the lead message is never dispatched;
\* with either flag true it is dispatched at most once, and exactly once as
\* soon as the client and the admin messages of the request were both sent.
C1_LeadDispatch ==
    \A r \in Req :
        LET flagged == analysis[r].termites_mentioned \/ analysis[r].pests_mentioned
            calls == Count(trace[r], "sendGreenMantisEmail")
        IN /\ calls <= 1
           /\ MailCount(r, "lead") <= calls
           /\ ~flagged => calls = 0
           /\ (flagged /\ Happened(r, "AdminSent")) => calls = 1
           /\ (flagged /\ pc[r] = "done" /\ responses[r][1].success) =>
                  MailCount(r, "lead") = 1

\* A flagged request whose lead message went out once, beside an unflagged
\* request that succeeded without one.
C1_Witness ==
    \E r1, r2 \in Req :
        /\ pc[r1] = "done" /\ responses[r1][1].success
        /\ analysis[r1].pests_mentioned /\ ~analysis[r1].termites_mentioned
        /\ MailCount(r1, "lead") = 1
        /\ pc[r2] = "done" /\ responses[r2][1].success
        /\ ~analysis[r2].pests_mentioned /\ ~analysis[r2].termites_mentioned
        /\ MailCount(r2, "lead") = 0

\* ---------------------------------------------------------------- C2
\* C2: when the analyzer's answer is not parseable, the request ends with
\* the 500 response carrying an error message, no report text is returned,
\* no insert is issued, no row is stored and no email is dispatched or sent.
C2_MalformedReply ==
    \A r \in Req :
        reply[r].kind = "prose" =>
            /\ pc[r] = "done"
            /\ Len(responses[r]) = 1
            /\ responses[r][1].status = 500
            /\ responses[r][1].error # ""
            /\ ~responses[r][1].success
            /\ responses[r][1].report = <<>>
            /\ reportText[r] = <<>>
            /\ dbStatus[r] = "none"
            /\ \A i \in DOMAIN reports : reports[i].req # r
            /\ outbox[r] = <<>>
            /\ ~Happened(r, "db.run")
            /\ ~Happened(r, "sendClientEmail")
            /\ ~Happened(r, "sendAdminEmail")
            /\ ~Happened(r, "sendGreenMantisEmail")

\* The analyzer answered a request with prose.
C2_Witness == \E r \in Req : reply[r].kind = "prose" /\ pc[r] = "done"

\* ---------------------------------------------------------------- C3
IsKind(p, kind) == p.kind = kind
IsCategoryName(p) == IsKind(p, "category_name")
IsTrade(p) == IsKind(p, "recommended_trade")
IsHandymanCost(p) == IsKind(p, "handyman_cost")
IsContractorCost(p) == IsKind(p, "contractor_cost")
IsSeparator(p) == IsKind(p, "separator")
IsItem(p) == IsKind(p, "item")

\* The item lines of the categories from the i-th on, in order.
RECURSIVE ExpectedItems(_, _)
ExpectedItems(cats, i) ==
    IF i > Len(cats) THEN <<>>
    ELSE [j \in 1..Len(cats[i].inspection_items) |->
            [kind |-> "item",
             text |-> <<"Section ", cats[i].inspection_items[j].section_number,
                        " - ", cats[i].inspection_items[j].description>>]]
         \o ExpectedItems(cats, i + 1)

\* The report of the formatter call, and the categories it was called on.
FormattedReport == reportText[1]
FormattedCats == analysis[1].repair_categories

\* C3: for an estimate with N >= 0 categories the report holds exactly N
\* category blocks, in the order of the input list, and exactly max(N-1, 0)
\* separators, each between the end of one block and the start of the next,
\* none after the last block.
C3_Blocks ==
    pc[1] = "formatted" =>
        LET rep == FormattedReport
            cats == FormattedCats
            n == Len(cats)
            names == SelectSeq(rep, IsCategoryName)
            trades == SelectSeq(rep, IsTrade)
            hcosts == SelectSeq(rep, IsHandymanCost)
            ccosts == SelectSeq(rep, IsContractorCost)
        IN /\ Len(names) = n /\ Len(trades) = n
           /\ Len(hcosts) = n /\ Len(ccosts) = n
           /\ \A i \in 1..n :
                /\ names[i].text = <<cats[i].category_name>>
                /\ trades[i].text = <<cats[i].recommended_trade>>
                /\ hcosts[i].text = <<"$">> \o ToLocaleString(cats[i].handyman_cost)
                /\ ccosts[i].text = <<"$">> \o ToLocaleString(cats[i].contractor_cost)
           /\ SelectSeq(rep, IsItem) = ExpectedItems(cats, 1)
           /\ Len(SelectSeq(rep, IsSeparator)) = (IF n = 0 THEN 0 ELSE n - 1)
           /\ \A j \in DOMAIN rep :
                /\ IsSeparator(rep[j]) =>
                     /\ j > 1 /\ j < Len(rep)
                     /\ IsTrade(rep[j - 1])
                     /\ IsCategoryName(rep[j + 1])
                /\ (IsTrade(rep[j]) /\ j < Len(rep)) =>
                     \/ IsSeparator(rep[j + 1])
                     \/ IsKind(rep[j + 1], "totals_label")
                /\ IsCategoryName(rep[j]) =>
                     \/ IsKind(rep[j - 1], "summary")
                     \/ IsSeparator(rep[j - 1])

\* A report of two different categories was formatted.
C3_Witness ==
    /\ pc[1] = "formatted"
    /\ Len(FormattedCats) = 2
    /\ FormattedCats[1] # FormattedCats[2]
    /\ Len(SelectSeq(FormattedReport, IsSeparator)) = 1

\* ---------------------------------------------------------------- C4
\* The number a formatted amount denotes: "$" and "," are skipped.
RECURSIVE ParseAmount(_)
ParseAmount(text) ==
    IF text = <<>> THEN 0
    ELSE LET c == text[Len(text)]
             rest == SubSeq(text, 1, Len(text) - 1)
         IN IF c \in {"$", ","} THEN ParseAmount(rest)
            ELSE 10 * ParseAmount(rest)
                 + (CHOOSE d \in 0..9 : DigitChar(d) = c)

\* The sum of a field over the categories, added from the front.
RECURSIVE SumFrom(_, _, _)
SumFrom(cats, field, i) ==
    IF i > Len(cats) THEN 0 ELSE cats[i][field] + SumFrom(cats, field, i + 1)

TotalPiece(rep, kind) == CHOOSE p \in {rep[i] : i \in DOMAIN rep} : p.kind = kind

\* C4: the handyman total of the report is the sum of handyman_cost over the
\* categories and the contractor total the sum of contractor_cost; for an
\* empty list both totals are 0 and no category block is rendered.
C4_Totals ==
    pc[1] = "formatted" =>
        LET rep == FormattedReport
            cats == FormattedCats
        IN /\ Count([i \in DOMAIN rep |-> rep[i].kind], "handyman_total") = 1
           /\ Count([i \in DOMAIN rep |-> rep[i].kind], "contractor_total") = 1
           /\ ParseAmount(TotalPiece(rep, "handyman_total").text)
                = SumFrom(cats, "handyman_cost", 1)
           /\ ParseAmount(TotalPiece(rep, "contractor_total").text)
                = SumFrom(cats, "contractor_cost", 1)
           /\ TotalPiece(rep, "handyman_total").text[1] = "$"
           /\ TotalPiece(rep, "contractor_total").text[1] = "$"
           /\ cats = <<>> =>
                /\ TotalPiece(rep, "handyman_total").text = <<"$", "0">>
                /\ TotalPiece(rep, "contractor_total").text = <<"$", "0">>
                /\ SelectSeq(rep, IsCategoryName) = <<>>
                /\ SelectSeq(rep, IsTrade) = <<>>
                /\ SelectSeq(rep, IsSeparator) = <<>>

\* A report whose totals add two categories, and one of an empty list.
C4_Witness ==
    /\ pc[1] = "formatted"
    /\ FormattedCats = <<RoofRepair, Plumbing>>
    /\ TotalPiece(FormattedReport, "handyman_total").text
         = <<"$", "1", ",", "4", "9", "9">>
    /\ TotalPiece(FormattedReport, "contractor_total").text
         = <<"$", "2", ",", "2", "0", "0">>

\* ---------------------------------------------------------------- C5
\* generateReportText was called for request r.
Formatted(r) == Happened(r, "Formatted")

C6_PaymentGate ==
    \A r \in Req :
        Formatted(r) =>
            \E s \in sessions : s.id \in paid

\* ---------------------------------------------------------------- C7
\* Every message the request asks for was accepted by the transport.
MailsComplete(r) ==
    /\ MailCount(r, "client") = 1
    /\ MailCount(r, "admin") = 1
    /\ (analysis[r].termites_mentioned \/ analysis[r].pests_mentioned)
          => MailCount(r, "lead") = 1

\* C7, amended: a request gets at most one response and has exactly one
\* when its handler has ended; the response is {success: true, report} with
\* status 200 when every step the handler waits for succeeded, and otherwise
\* status 500 with {error}: for a missing pdf file, a rejected document, an
\* analyzer failure, an unparseable or incomplete answer and a failed email.
\* The outcome of the insert, which the handler does not wait for, does not
\* enter.
C7_OneResponse ==
    \A r \in Req :
        /\ Len(responses[r]) <= 1
        /\ pc[r] = "done" <=> Len(responses[r]) = 1
        /\ pc[r] = "done" =>
             LET res == responses[r][1]
             IN IF Formatted(r) /\ MailsComplete(r)
                  THEN /\ res.status = 200 /\ res.success
                       /\ res.report = reportText[r] /\ res.error = ""
                  ELSE /\ res.status = 500 /\ ~res.success
                       /\ res.report = <<>> /\ res.error # ""
        /\ (pc[r] # "idle" /\ file[r] = "none") => pc[r] = "done"
        /\ (pc[r] = "done" /\ (file[r] \in {"none", "corrupt"} \/ ~Formatted(r)))
             => responses[r][1].status = 500

\* C7, as stated: exactly one response per request, success or 500, and
\* every failure gives the 500 response, the failure of a collaborator such
\* as the record store included.
C7_Original ==
    /\ C7_OneResponse
    /\ \A r \in Req :
         (pc[r] = "done" /\ dbStatus[r] = "failed") => responses[r][1].status = 500

\* One request failed for its missing file and got 500, while another,
\* whose insert failed, got the success response.
C7_Witness ==
    \E r1, r2 \in Req :
        /\ pc[r1] = "done" /\ file[r1] = "none" /\ responses[r1][1].status = 500
        /\ pc[r2] = "done" /\ responses[r2][1].status = 200
        /\ dbStatus[r2] = "failed"

\* ---------------------------------------------------------------- C8
IsPrefix(s, t) == Len(s) <= Len(t) /\ s = SubSeq(t, 1, Len(s))

\* The calls and stages of a request that succeeds, in program order.
FullTrace(lead) ==
    <<"Received", "pdfParse", "Extracted", "messages.create", "Analyzed",
      "Formatted", "db.run", "Stored", "sendClientEmail", "ClientSent",
      "sendAdminEmail", "AdminSent">>
    \o (IF lead THEN <<"sendGreenMantisEmail", "LeadSent">> ELSE <<>>)
    \o <<"Notified", "Complete">>

\* The stages are run in order, each call after the stage before it, the
\* emails in the order client, admin, lead; Failed is the only other step
\* and ends the handler.
C8_StageOrder ==
    \A r \in Req :
        LET t == trace[r]
            full == FullTrace(analysis[r].termites_mentioned
                              \/ analysis[r].pests_mentioned)
        IN IF t # <<>> /\ t[Len(t)] = "Failed"
             THEN /\ IsPrefix(SubSeq(t, 1, Len(t) - 1), full)
                  /\ Len(t) - 1 < Len(full)
                  /\ pc[r] = "done"
             ELSE /\ IsPrefix(t, full)
                  /\ pc[r] = "done" <=> t = full

\* C8, as stated: the stages are run in order and a stage is started only
\* after the previous one finished successfully; so the notification stage
\* is started only after the insert of the Stored stage succeeded.
C8_Original ==
    /\ C8_StageOrder
    /\ \A r \in Req : Happened(r, "sendClientEmail") => dbStatus[r] = "ok"

\* C8, amended: the stages are run in that order, each started only after
\* the previous one finished successfully, except that notification starts
\* once the insert has been issued, without waiting for its outcome: the
\* insert may be pending, done or failed while the emails go out.
C8_StageOrderAmended ==
    /\ C8_StageOrder
    /\ \A r \in Req :
         /\ Happened(r, "sendClientEmail") => dbStatus[r] \in {"pending", "ok", "failed"}
         /\ dbStatus[r] # "none" <=> Happened(r, "db.run")
         /\ (\E i \in DOMAIN reports : reports[i].req = r) <=> dbStatus[r] = "ok"

\* A flagged request went through every stage, the lead message included.
C8_Witness ==
    \E r \in Req : pc[r] = "done" /\ trace[r] = FullTrace(TRUE)

\* ---------------------------------------------------------------- C9
\* C9, as stated: once the report is formatted, the caller gets the success
\* response even if the insert or one of the emails fails afterwards.
C9_Original ==
    \A r \in Req :
        (pc[r] = "done" /\ Formatted(r)) =>
            responses[r] = <<SuccessResponse(reportText[r])>>

\* C9, amended: once the report is formatted, a failure of the insert does
\* not change the response: the caller gets the success response if the
\* emails are sent, also when the insert failed; a failed client, admin or
\* lead email gives the 500 response with the transport's message.
C9_AfterAnalysis ==
    \A r \in Req :
        (pc[r] = "done" /\ Formatted(r)) =>
            /\ Len(responses[r]) = 1
            /\ MailsComplete(r) =>
                 responses[r][1] = [status |-> 200, success |-> TRUE,
                                    report |-> reportText[r], error |-> ""]
            /\ ~MailsComplete(r) =>
                 /\ responses[r][1].status = 500
                 /\ responses[r][1].error = "SMTP error"
                 /\ trace[r][Len(trace[r])] = "Failed"
                 /\ trace[r][Len(trace[r]) - 1] \in
                      {"sendClientEmail", "sendAdminEmail", "sendGreenMantisEmail"}

\* The insert of a request failed and the caller got the success response,
\* while a request whose admin email failed got the 500 response.
C9_Witness ==
    \E r1, r2 \in Req :
        /\ pc[r1] = "done" /\ dbStatus[r1] = "failed" /\ responses[r1][1].status = 200
        /\ pc[r2] = "done" /\ Formatted(r2) /\ responses[r2][1].status = 500
        /\ MailCount(r2, "client") = 1 /\ MailCount(r2, "admin") = 0

\* --------------------------------------------------------------- C10
\* The emails of request r that were dispatched, given how far its sends got.
C10_Dispatch ==
    \A r \in Req :
        /\ Happened(r, "db.run") => Happened(r, "sendClientEmail")
        /\ Happened(r, "ClientSent") => Happened(r, "sendAdminEmail")
        /\ ( /\ Happened(r, "AdminSent")
             /\ (analysis[r].termites_mentioned \/ analysis[r].pests_mentioned) )
           => Happened(r, "sendGreenMantisEmail")
        /\ (pc[r] = "done" /\ MailsComplete(r)) => responses[r][1].status = 200

\* The settlement of an insert changes nothing but the table.
C10_NoRollback ==
    \A r \in Req :
        (dbStatus[r] = "pending" /\ dbStatus'[r] # "pending") =>
            /\ pc' = pc /\ outbox' = outbox /\ responses' = responses
            /\ trace' = trace

\* C10: the insert is issued without waiting for its outcome: the client
\* email is dispatched with it, the admin and (when flagged) lead emails
\* follow on the emails' own outcomes, and the insert's success or failure
\* neither stops the handler nor takes back a message or the response.
C10_InsertNotAwaited == []C10_Dispatch /\ [][C10_NoRollback]_vars

\* The insert of a flagged request failed, and its three emails were sent
\* and its handler answered all the same.
C10_Witness ==
    \E r \in Req :
        /\ dbStatus[r] = "failed"
        /\ MailCount(r, "client") = 1 /\ MailCount(r, "admin") = 1
        /\ MailCount(r, "lead") = 1
        /\ pc[r] = "done"

\* --------------------------------------------------------------- C11
\* The send of a message of request r was called, has settled, and the
\* transport did not accept the message.
SendFailed(r, call, stage, template) ==
    /\ Happened(r, call)
    /\ pc[r] # stage
    /\ MailCount(r, template) = 0

\* C11: when the client send fails, neither the admin nor the lead message
\* of the request is dispatched or sent; when the admin send fails, the lead
\* message is not; the request ends there with the 500 response.
C11_NotIsolated ==
    \A r \in Req :
        /\ SendFailed(r, "sendClientEmail", "sendingClient", "client") =>
             /\ ~Happened(r, "sendAdminEmail")
             /\ ~Happened(r, "sendGreenMantisEmail")
             /\ outbox[r] = <<>>
             /\ pc[r] = "done" /\ responses[r][1].status = 500
        /\ SendFailed(r, "sendAdminEmail", "sendingAdmin", "admin") =>
             /\ ~Happened(r, "sendGreenMantisEmail")
             /\ MailCount(r, "lead") = 0
             /\ pc[r] = "done" /\ responses[r][1].status = 500

\* The client send of one flagged request failed and the admin send of
\* another flagged request failed.
C11_Witness ==
    \E r1, r2 \in Req :
        /\ SendFailed(r1, "sendClientEmail", "sendingClient", "client")
        /\ analysis[r1].termites_mentioned
        /\ SendFailed(r2, "sendAdminEmail", "sendingAdmin", "admin")
        /\ analysis[r2].pests_mentioned
        /\ MailCount(r2, "client") = 1

\* --------------------------------------------------------------- C12
\* C12: when the analyzer's answer parses but has no repair_categories, the
\* request ends with the 500 response, no report is returned, no insert is
\* issued, no row is stored and no email is dispatched or sent.
C12_NoCategories ==
    \A r \in Req :
        (reply[r].kind = "json" /\ ~reply[r].value.has_categories) =>
            /\ pc[r] = "done"
            /\ Len(responses[r]) = 1
            /\ responses[r][1].status = 500
            /\ responses[r][1].error # ""
            /\ responses[r][1].report = <<>>
            /\ reportText[r] = <<>>
            /\ dbStatus[r] = "none"
            /\ \A i \in DOMAIN reports : reports[i].req # r
            /\ outbox[r] = <<>>
            /\ ~Happened(r, "Formatted")
            /\ ~Happened(r, "db.run")
            /\ ~Happened(r, "sendClientEmail")
            /\ ~Happened(r, "sendAdminEmail")
            /\ ~Happened(r, "sendGreenMantisEmail")

\* The analyzer answered a request with an object without repair_categories
\* whose pests flag is set.
C12_Witness ==
    \E r \in Req :
        /\ reply[r] = JsonText(NoCategoriesObject)
        /\ analysis[r].pests_mentioned
        /\ pc[r] = "done"

\* --------------------------------------------------------------- C13
\* C13: the inspection text given to the analyzer is the prefix of the
\* extracted text of length min(length, 40000): never longer than 40,000
\* characters, and the whole text when that is not longer.
C13_Truncation ==
    \A r \in Req :
        Happened(r, "messages.create") =>
            LET extracted == PdfText(file[r])
            IN /\ prompt[r].doc = extracted.doc
               /\ prompt[r].len <= MaxInputChars
               /\ prompt[r].len <= extracted.len
               /\ extracted.len <= MaxInputChars => prompt[r] = extracted
               /\ extracted.len > MaxInputChars => prompt[r].len = MaxInputChars

\* One request sent a cut text to the analyzer, another a whole one.
C13_Witness ==
    \E r1, r2 \in Req :
        /\ Happened(r1, "messages.create") /\ file[r1] = "long"
        /\ prompt[r1].len = MaxInputChars /\ PdfText(file[r1]).len > MaxInputChars
        /\ Happened(r2, "messages.create") /\ file[r2] = "short"
        /\ prompt[r2] = PdfText("short")

\* --------------------------------------------------------------- C14
\* The record, the emails and the response of request r hold the identity
\* fields and the estimate of request r.
OwnData(r) ==
    /\ \A i \in DOMAIN reports :
         reports[i].req = r =>
            /\ reports[i].row.first_name = body[r].firstName
            /\ reports[i].row.last_name = body[r].lastName
            /\ reports[i].row.email = body[r].email
            /\ reports[i].row.phone = body[r].phone
            /\ reports[i].row.property_address = body[r].propertyAddress
            /\ reports[i].row.report_data = [kind |-> "json", value |-> analysis[r]]
    /\ \A i \in DOMAIN outbox[r] :
         LET mail == outbox[r][i]
         IN /\ mail.firstName = body[r].firstName
            /\ mail.address = body[r].propertyAddress
            /\ mail.template = "client" =>
                 mail.to = body[r].email /\ mail.attachment = reportText[r]
            /\ mail.template \in {"admin", "lead"} =>
                 /\ mail.lastName = body[r].lastName /\ mail.email = body[r].email
                 /\ mail.phone = body[r].phone
    /\ \A i \in DOMAIN responses[r] :
         responses[r][i].success => responses[r][i].report = reportText[r]
    /\ Formatted(r) =>
         \E i \in DOMAIN reportText[r] :
            /\ reportText[r][i].kind = "prepared_for"
            /\ reportText[r][i].text = <<body[r].firstName, " ", body[r].lastName>>

\* The outcome of request r follows from its own upload, its own answer and
\* its own sends, and a stored insert is a row of its own.
OwnOutcome(r) ==
    /\ pc[r] = "done" =>
         (responses[r][1].status = 200 <=> (Formatted(r) /\ MailsComplete(r)))
    /\ Cardinality({i \in DOMAIN reports : reports[i].req = r})
         = (IF dbStatus[r] = "ok" THEN 1 ELSE 0)

C14_Isolation == \A r \in Req : OwnData(r) /\ OwnOutcome(r)

\* A step taken for one request changes nothing of another request.
C14_StepLocal ==
    \A r, q \in Req :
        (r # q /\ (trace'[r] # trace[r] \/ dbStatus'[r] # dbStatus[r])) =>
            /\ pc'[q] = pc[q] /\ body'[q] = body[q] /\ file'[q] = file[q]
            /\ analysis'[q] = analysis[q] /\ reportText'[q] = reportText[q]
            /\ trace'[q] = trace[q] /\ responses'[q] = responses[q]
            /\ outbox'[q] = outbox[q] /\ dbStatus'[q] = dbStatus[q]
            /\ \A i \in DOMAIN reports : reports[i].req = q => reports'[i] = reports[i]

\* C14: under every interleaving of two requests, the record, the emails
\* and the response of a request hold only its own identity fields and
\* estimate, no step of one request changes the state or the outcome of the
\* other, and every stored insert is a row of its own, also for an
\* identical upload.
C14_Independent == []C14_Isolation /\ [][C14_StepLocal]_vars

\* Two requests with the same fields, file and estimate both succeeded
\* with a row and three emails each.
C14_WitnessSame ==
    \E r1, r2 \in Req :
        /\ r1 # r2
        /\ body[r1] = body[r2] /\ file[r1] = file[r2] /\ analysis[r1] = analysis[r2]
        /\ analysis[r1].termites_mentioned
        /\ \A r \in {r1, r2} :
             pc[r] = "done" /\ responses[r][1].status = 200 /\ dbStatus[r] = "ok"
             /\ Len(outbox[r]) = 3
        /\ Len(reports) = 2

\* --------------------------------------------------------------- C15
\* C15, as stated: a finished request issued exactly one insert if its
\* analysis succeeded (the answer was received and parsed), and none
\* otherwise.
C15_Original ==
    \A r \in Req :
        pc[r] = "done" =>
            Count(trace[r], "db.run") = (IF Happened(r, "Analyzed") THEN 1 ELSE 0)

\* The inserts of a request: one, issued once the report is formatted.
C15_Inserts ==
    \A r \in Req :
        /\ Count(trace[r], "db.run") = (IF Formatted(r) THEN 1 ELSE 0)
        /\ dbStatus[r] # "none" <=> Happened(r, "db.run")
        /\ Cardinality({i \in DOMAIN reports : reports[i].req = r}) <= 1
        /\ Formatted(r) => Happened(r, "Analyzed")

\* A step leaves every stored record as it is and in its place.
C15_GrowOnly == IsPrefix(reports, reports')

\* C15, amended: a request issues exactly one insert if its analysis
\* succeeded and the report was formatted from it, and none otherwise; no
\* step updates or deletes a stored record, the table only grows.
C15_InsertOnce == []C15_Inserts /\ [][C15_GrowOnly]_vars

\* One request stored its record next to the record of the other, which has
\* the same email; a request whose parsed answer has no repair_categories
\* would not reach this state.
C15_Witness ==
    /\ Len(reports) = 2
    /\ reports[1].row.email = reports[2].row.email
    /\ \A r \in Req : pc[r] = "done" /\ Count(trace[r], "db.run") = 1

\* --------------------------------------------------------------- C16
\* C16: every inserted record carries the identity fields of its
\* submission, a payment reference in payment_id, the serialized estimate
\* in report_data and the three flags with the values of the estimate.
C16_RecordFields ==
    \A i \in DOMAIN reports :
        LET rec == reports[i].row
            r == reports[i].req
        IN /\ rec.first_name = body[r].firstName
           /\ rec.last_name = body[r].lastName
           /\ rec.email = body[r].email
           /\ rec.phone = body[r].phone
           /\ rec.property_address = body[r].propertyAddress
           /\ rec.report_data = JsonStringify(analysis[r])
           /\ rec.termites_mentioned = analysis[r].termites_mentioned
           /\ rec.pests_mentioned = analysis[r].pests_mentioned
           /\ rec.rot_mentioned = analysis[r].rot_mentioned
           /\ rec.payment_id # "NULL"

\* --------------------------------------------------------------- C17
\* The provider is called once per checkout request, and the one response
\* hands on what the provider answered.
C17_Answer ==
    \A c \in Chk :
        /\ stripeCalls[c] = (IF ckPc[c] = "idle" THEN 0 ELSE 1)
        /\ Len(ckResponses[c]) = (IF ckPc[c] = "done" THEN 1 ELSE 0)
        /\ ckPc[c] = "done" =>
             LET res == ckResponses[c][1]
                 answer == stripeAnswer[c]
             IN IF answer.kind = "session"
                  THEN /\ res.status = 200 /\ res.sessionId = answer.id
                       /\ \E s \in sessions : s.id = answer.id
                  ELSE /\ answer.kind = "error"
                       /\ res.status = 500 /\ res.error = answer.message
                       /\ res.error \in StripeErrors

\* A step of a checkout request writes no record and sends no email.
C17_NoSideEffect ==
    (ckPc' # ckPc \/ stripeCalls' # stripeCalls) =>
        /\ reports' = reports /\ dbStatus' = dbStatus
        /\ outbox' = outbox /\ trace' = trace

\* C17: a create-stripe-checkout request calls the payment provider exactly
\* once, answers 200 with the provider's session id when the call succeeds
\* and 500 with the provider's error message when it fails, and never
\* inserts a record or sends an email.
C17_Checkout == []C17_Answer /\ [][C17_NoSideEffect]_vars

\* A checkout request whose one call failed was answered 500 with the
\* provider's message, while a process-report request stored its record.
C17_Witness ==
    \E c \in Chk :
        /\ ckPc[c] = "done" /\ stripeCalls[c] = 1
        /\ ckResponses[c][1].status = 500
        /\ ckResponses[c][1].error = "Rate limit exceeded"
        /\ Len(reports) = 1

\* --------------------------------------------------------------- C18
\* The calls a request makes to its collaborators, as logged in its trace.
CallEvents ==
    {"pdfParse", "messages.create", "db.run", "sendClientEmail", "sendAdminEmail",
     "sendGreenMantisEmail"}
Calls(t) == Cardinality({i \in DOMAIN t : t[i] \in CallEvents})

\* Each collaborator operation is invoked at most once per request, and each
\* message is sent at most once.
C18_AtMostOnce ==
    \A r \in Req :
        /\ \A call \in CallEvents : Count(trace[r], call) <= 1
        /\ \A template \in {"client", "admin", "lead"} : MailCount(r, template) <= 1

\* Once an operation of request r has failed, the failed insert included,
\* the request invokes no further collaborator operation.
C18_StopAtAnyFailure ==
    \A r \in Req :
        (Happened(r, "Failed") \/ dbStatus[r] = "failed") =>
            Calls(trace'[r]) = Calls(trace[r])

\* C18, as stated: each collaborator operation is invoked at most once per
\* request, and after the first failure no further one is invoked.
C18_Original == []C18_AtMostOnce /\ [][C18_StopAtAnyFailure]_vars

\* The failure the handler sees ends the request: Failed is the last entry
\* of the trace and the request is done.
C18_FailedIsLast ==
    \A r \in Req :
        Happened(r, "Failed") =>
            /\ pc[r] = "done"
            /\ trace[r][Len(trace[r])] = "Failed"
            /\ Count(trace[r], "Failed") = 1

\* After the failure the handler sees, the request calls nothing, sends
\* nothing and answers nothing more.
C18_StopAtFailure ==
    \A r \in Req :
        Happened(r, "Failed") =>
            /\ trace'[r] = trace[r] /\ outbox'[r] = outbox[r]
            /\ responses'[r] = responses[r] /\ pc'[r] = pc[r]
            /\ dbStatus'[r] # dbStatus[r] => dbStatus[r] = "pending"

\* C18, amended: each collaborator operation is invoked at most once per
\* request, and after the first failure the handler sees (of the upload,
\* the extraction, the analysis, the parse, the formatting or an email)
\* no further collaborator operation is invoked for the request.
C18_NoRetry ==
    [](C18_AtMostOnce /\ C18_FailedIsLast) /\ [][C18_StopAtFailure]_vars

\* The lead send of a request failed after one call of each collaborator,
\* and the request ended there.
C18_Witness ==
    \E r \in Req :
        /\ Happened(r, "Failed")
        /\ \A call \in CallEvents : Count(trace[r], call) = 1
        /\ MailCount(r, "lead") = 0 /\ MailCount(r, "admin") = 1
        /\ responses[r] = <<ErrorResponse("SMTP error")>>

\* --------------------------------------------------------------- C19
\* Event a is logged before event b in the trace of request r.
Before(r, a, b) ==
    \E i, j \in DOMAIN trace[r] : i < j /\ trace[r][i] = a /\ trace[r][j] = b
Succeeded(r) == \E i \in DOMAIN responses[r] : responses[r][i].success

\* C19: when a request answered with the success response, its insert was
\* issued and its client and admin messages were sent before the response,
\* and so was its lead message when termites_mentioned or pests_mentioned
\* is true.
C19_SuccessMeans ==
    \A r \in Req :
        Succeeded(r) =>
            /\ Before(r, "db.run", "Complete") /\ dbStatus[r] # "none"
            /\ Before(r, "ClientSent", "Complete") /\ MailCount(r, "client") = 1
            /\ Before(r, "AdminSent", "Complete") /\ MailCount(r, "admin") = 1
            /\ Before(r, "ClientSent", "AdminSent")
            /\ (analysis[r].termites_mentioned \/ analysis[r].pests_mentioned) =>
                 /\ Before(r, "LeadSent", "Complete") /\ MailCount(r, "lead") = 1
                 /\ Before(r, "AdminSent", "LeadSent")

\* A request with pests and no termites answered with success after its
\* three messages, while its insert is still pending.
C19_Witness ==
    \E r \in Req :
        /\ Succeeded(r)
        /\ analysis[r].pests_mentioned /\ ~analysis[r].termites_mentioned
        /\ Len(outbox[r]) = 3
        /\ dbStatus[r] = "pending"

\* --------------------------------------------------------------- C20
\* C20: in a request that answered with success, the report of the
\* response is the attachment of the client message, it is the result of
\* the one generateReportText call of the request, made from the request's
\* fields and the estimate, and that estimate is what the inserted record
\* holds in serialized form.
C20_OneReport ==
    \A r \in Req :
        Succeeded(r) =>
            /\ Len(responses[r]) = 1
            /\ Count(trace[r], "Formatted") = 1
            /\ responses[r][1].report # <<>>
            /\ responses[r][1].report =
                  GenerateReportText(body[r].firstName, body[r].lastName,
                      body[r].propertyAddress, analysis[r], Now(reportDate[r]))
            /\ \A i \in DOMAIN outbox[r] :
                 outbox[r][i].template = "client" =>
                    outbox[r][i].attachment = responses[r][1].report
            /\ \E i \in DOMAIN outbox[r] : outbox[r][i].template = "client"
            /\ \A i \in DOMAIN reports :
                 reports[i].req = r =>
                    reports[i].row.report_data = JsonStringify(analysis[r])

\* A request answered with the report of a one-category estimate, the
\* client message carries it, and the record is stored.
C20_Witness ==
    \E r \in Req :
        /\ Succeeded(r)
        /\ analysis[r].repair_categories = <<RoofRepair>>
        /\ \E i \in DOMAIN reports :
             reports[i].req = r /\ reports[i].row.report_data = JsonStringify(analysis[r])
        /\ \E i \in DOMAIN outbox[r] :
             /\ outbox[r][i].template = "client"
             /\ outbox[r][i].attachment = responses[r][1].report
             /\ Len(outbox[r][i].attachment) > 5

====
